---- MODULE Spec2Model ----
(***************************************************************************)
(* Model of app/app.py: the Streamlit script that loads a CLIP model,      *)
(* three FAISS indices and a product table, and whose Search button        *)
(* handler embeds the query, searches one index, looks the hits up in the  *)
(* table, renders them and asks GPT-4 for a recommendation.                *)
(*                                                                         *)
(* External collaborators (CLIP, FAISS, pandas, OpenAI, the artifact       *)
(* store) are modelled by their observable outcomes: success or a raised   *)
(* exception, and for FAISS any result a k-nearest search can return.      *)
(***************************************************************************)
EXTENDS Integers, Sequences, FiniteSets, TLC

\* ---------------------------------------------------------------- bounds
\* rows of final_dataset.csv
NRows == 5
\* width of one CLIP embedding (512 in the real model)
Dim == 2

\* ------------------------------------------------------------- constants
\* index_to_use.search(multimodal_embedding, k=5)
K == 5

None == "None"
\* a numpy array / DataFrame local that has not been assigned
NoArray == <<>>

IndexNames == <<"text_only", "image_only", "multimodal_embeddings">>
QueryTypes == {"Text", "Image", "Multimodal"}
\* st.text_input: the empty string when nothing was typed
Queries == {"", "shoes"}
\* st.file_uploader: None, a decodable image, or a file PIL cannot decode
Uploads == {None, "photo.jpg", "notes.txt"}
\* number of vectors the index artifacts hold: fewer than k, as many as the
\* table has rows, one more than the table has rows
IndexSizes == {NRows - 3, NRows, NRows + 1}

VARIABLES
    pc,                  \* position of the script run
    clip_model,          \* cache of load_clip_model
    faiss_cached,        \* cache of load_faiss_indices holds a value
    temp_indices,        \* index files present in temp_indices/
    ntotal,              \* vectors held by each index artifact
    text_index, image_index, full_index,
    final_dataset,       \* cache of load_dataset
    query_type, query, uploaded_file,
    button,              \* st.button("Search") of the current script run
    text_embedding, image_embedding,
    multimodal_embedding, index_to_use,
    indices, retrieved_items,
    context, gpt_response,
    display,             \* elements rendered by the current script run
    embed_calls, search_calls, chat_calls,   \* external calls of this request
    failure,             \* step of this request that raised, or "none"
    failed_before        \* an earlier Search action ended in an error

loaded == <<clip_model, faiss_cached, temp_indices, ntotal,
            text_index, image_index, full_index, final_dataset>>
inputs == <<query_type, query, uploaded_file, button>>
locals == <<text_embedding, image_embedding, multimodal_embedding,
            index_to_use, indices, retrieved_items, context, gpt_response>>
calls  == <<embed_calls, search_calls, chat_calls>>
vars   == <<pc, loaded, inputs, locals, display, calls, failure, failed_before>>

RequestPcs == {"embed_text", "embed_image", "route", "search", "lookup",
               "render", "respond"}

\* ------------------------------------------------------ rendered elements
Element(kind, row, text) == [kind |-> kind, row |-> row, text |-> text]
InvalidQueryError == Element("error", -1, <<"Please provide a valid query!">>)
ErrorOccurred(e) == Element("error", -1, <<"An error occurred: ", e>>)
LoadError(name) ==
    Element("error", -1, <<"Failed to load FAISS index for ", name>>)
Subheader(t) == Element("subheader", -1, <<t>>)

Shown(el) == \E i \in 1..Len(display) : display[i] = el
ShownKind(kind) == \E i \in 1..Len(display) : display[i].kind = kind

\* ------------------------------------------------------------------ Init
\* pd.read_csv gives the table a RangeIndex: the row at position i carries
\* label i
LoadedTable == [i \in 1..NRows |-> [label |-> i - 1, product |-> i - 1]]

Init ==
    /\ pc = "load_clip"
    /\ clip_model = None
    /\ faiss_cached = FALSE
    /\ temp_indices = {}
    /\ ntotal \in IndexSizes
    /\ text_index = None /\ image_index = None /\ full_index = None
    /\ final_dataset = NoArray
    /\ query_type = "Text" /\ query = "" /\ uploaded_file = None
    /\ button = FALSE
    /\ text_embedding = NoArray /\ image_embedding = NoArray
    /\ multimodal_embedding = NoArray /\ index_to_use = None
    /\ indices = NoArray /\ retrieved_items = NoArray
    /\ context = NoArray /\ gpt_response = NoArray
    /\ display = <<>>
    /\ embed_calls = <<>> /\ search_calls = <<>> /\ chat_calls = 0
    /\ failure = "none"
    /\ failed_before = FALSE

\* --------------------------------------------------------------- startup
\* an exception that escapes the script: the run stops where it is and the
\* rest of the script, the form included, is not executed
Abort(e) ==
    /\ pc' = "aborted"
    /\ display' = Append(display, Element("exception", -1, <<e>>))

load_clip_model ==
    /\ pc = "load_clip"
    /\ \/ /\ clip_model # None
          /\ pc' = "load_indices"
          /\ UNCHANGED <<clip_model, display>>
       \/ /\ clip_model = None
          /\ \E ok \in BOOLEAN :
                IF ok
                THEN /\ clip_model' = "openai/clip-vit-base-patch32"
                     /\ pc' = "load_indices"
                     /\ UNCHANGED display
                ELSE /\ Abort("from_pretrained")
                     /\ UNCHANGED clip_model
    /\ UNCHANGED <<faiss_cached, temp_indices, ntotal, text_index, image_index,
                   full_index, final_dataset, inputs, locals, calls, failure,
                   failed_before>>

\* position in IndexNames of the first file whose download raises, 0 if none
FirstDownloadFailure(dl) ==
    LET bad == {j \in 1..Len(IndexNames) :
                    IndexNames[j] \notin temp_indices /\ ~dl[j]}
    IN  IF bad = {} THEN 0 ELSE CHOOSE j \in bad : \A m \in bad : j <= m

\* the st.error of every index among the first upto whose read_index raised
ReadErrors(rd, upto) ==
    LET F == SelectSeq(<<1, 2, 3>>, LAMBDA j : j <= upto /\ ~rd[j])
    IN  [i \in 1..Len(F) |-> LoadError(IndexNames[F[i]])]

\* loaded_indices.get(name)
Handle(rd, j) == IF rd[j] THEN IndexNames[j] ELSE None

load_faiss_indices ==
    /\ pc = "load_indices"
    /\ \/ /\ faiss_cached
          /\ pc' = "load_dataset"
          /\ UNCHANGED <<faiss_cached, temp_indices, text_index, image_index,
                         full_index, display>>
       \/ /\ ~faiss_cached
          /\ \E dl \in [1..Len(IndexNames) -> BOOLEAN],
                rd \in [1..Len(IndexNames) -> BOOLEAN] :
                LET stop == FirstDownloadFailure(dl)
                IN  IF stop # 0
                    THEN /\ temp_indices' = temp_indices \cup
                                {IndexNames[j] : j \in 1..(stop - 1)}
                         /\ pc' = "aborted"
                         /\ display' = (display \o ReadErrors(rd, stop - 1)) \o
                                <<Element("exception", -1, <<"download_file">>)>>
                         /\ UNCHANGED <<faiss_cached, text_index, image_index,
                                        full_index>>
                    ELSE /\ temp_indices' =
                                {IndexNames[j] : j \in 1..Len(IndexNames)}
                         /\ text_index' = Handle(rd, 1)
                         /\ image_index' = Handle(rd, 2)
                         /\ full_index' = Handle(rd, 3)
                         /\ faiss_cached' = TRUE
                         /\ display' = display \o ReadErrors(rd, Len(IndexNames))
                         /\ pc' = "load_dataset"
    /\ UNCHANGED <<clip_model, ntotal, final_dataset, inputs, locals, calls,
                   failure, failed_before>>

load_dataset ==
    /\ pc = "load_dataset"
    /\ \/ /\ final_dataset # NoArray
          /\ pc' = "form"
          /\ UNCHANGED <<final_dataset, display>>
       \/ /\ final_dataset = NoArray
          /\ \E ok \in BOOLEAN :
                IF ok
                THEN /\ final_dataset' = LoadedTable
                     /\ pc' = "form"
                     /\ UNCHANGED display
                ELSE /\ Abort("read_csv")
                     /\ UNCHANGED final_dataset
    /\ UNCHANGED <<clip_model, faiss_cached, temp_indices, ntotal, text_index,
                   image_index, full_index, inputs, locals, calls, failure,
                   failed_before>>

\* the locals of a script run before the handler assigns them
FreshLocals ==
    /\ text_embedding' = NoArray /\ image_embedding' = NoArray
    /\ multimodal_embedding' = NoArray /\ index_to_use' = None
    /\ indices' = NoArray /\ retrieved_items' = NoArray
    /\ context' = NoArray /\ gpt_response' = NoArray
    /\ embed_calls' = <<>> /\ search_calls' = <<>> /\ chat_calls' = 0
    /\ failure' = "none"

\* the user reloads the page or changes a widget: the script runs again from
\* the top, with whatever the caches hold
Rerun ==
    /\ pc \in {"aborted", "form"}
    /\ pc' = "load_clip"
    /\ display' = <<>>
    /\ FreshLocals
    /\ button' = FALSE
    /\ UNCHANGED <<loaded, query_type, query, uploaded_file, failed_before>>

\* ------------------------------------------------------ external helpers
\* CLIP features of one text / one image: Dim components, a function of the
\* input only; component i of the embedding of x is named, not computed
generate_text_embeddings(q) == [i \in 1..Dim |-> <<"text", q, i>>]
generate_image_embeddings(f) == [i \in 1..Dim |-> <<"image", f, i>>]

\* np.hstack with its operands swapped
hstack_Reversed(a, b) == b \o a

\* np.hstack([a, b]) of two one-row arrays
hstack(a, b) == a \o b

\* Image.open(uploaded_file).convert("RGB") raises on a file that is no image
Decodable(f) == f = "photo.jpg"

\* what index.search(v, k) can return for an index of n vectors: the
\* positions of min(k, n) distinct vectors, nearest first, then -1 for every
\* neighbour that does not exist
SearchOutcomes(n) ==
    LET m == IF n < K THEN n ELSE K
    IN  {r \in [1..K -> -1..(n - 1)] :
            /\ \A i \in 1..m : r[i] >= 0
            /\ \A i \in (m + 1)..K : r[i] = -1
            /\ \A i, j \in 1..m : i # j => r[i] # r[j]}

\* DataFrame.iloc[list]: every position must lie in -len..len-1
InBounds(df, pos) ==
    \A i \in 1..Len(pos) : pos[i] >= -Len(df) /\ pos[i] < Len(df)

\* the row a position selects; a negative position counts from the end
ILocRow(df, p) == IF p >= 0 THEN df[p + 1] ELSE df[Len(df) + p + 1]

iloc(df, pos) == [i \in 1..Len(pos) |-> ILocRow(df, pos[i])]

\* ------------------------------------------------- generate_response_gpt4
FallbackMessage(q) ==
    <<"Sorry, I couldn't find any relevant products for your query: ", q>>

\* one context line per row of retrieved_items.iterrows(), numbered i+1
\* where i is the row's index label
ContextLines(items) ==
    [i \in 1..Len(items) |->
        [number |-> items[i].label + 1, product |-> items[i].product]]

\* generate_response_gpt4 without its guard on an empty result list
generate_response_gpt4_AlwaysChat(q, items, chat_ok) ==
    [raised |-> ~chat_ok,
     value |-> IF chat_ok THEN <<"gpt-4 completion">> ELSE NoArray,
     chat |-> 1, context |-> ContextLines(items)]

\* the call's effect: whether it raised, the value returned, the number of
\* ChatCompletion.create calls made and the context block put in the prompt
generate_response_gpt4(q, items, chat_ok) ==
    IF items = NoArray
    THEN [raised |-> FALSE, value |-> FallbackMessage(q), chat |-> 0,
          context |-> NoArray]
    ELSE [raised |-> ~chat_ok,
          value |-> IF chat_ok THEN <<"gpt-4 completion">> ELSE NoArray,
          chat |-> 1, context |-> ContextLines(items)]

\* ------------------------------------------------- Search button handler
\* an except clause that replaces what was rendered by the error message
Catch_ClearsDisplay(e) ==
    /\ pc' = "form"
    /\ display' = <<ErrorOccurred(e)>>
    /\ failure' = e
    /\ failed_before' = TRUE

\* a handler without the try block: the exception escapes the script
Catch_Escapes(e) ==
    /\ pc' = "aborted"
    /\ display' = Append(display, Element("exception", -1, <<e>>))
    /\ failure' = e
    /\ failed_before' = TRUE

\* except Exception as e: st.error(...); the script run ends
Catch(e) ==
    /\ pc' = "form"
    /\ display' = Append(display, ErrorOccurred(e))
    /\ failure' = e
    /\ failed_before' = TRUE

\* st.button("Search") is pressed with the widgets holding some inputs
Search ==
    /\ pc = "form"
    /\ \E m \in QueryTypes, q \in Queries, f \in Uploads :
          /\ query_type' = m
          /\ query' = q
          /\ uploaded_file' = f
    /\ button' = TRUE
    /\ display' = <<>>
    /\ FreshLocals
    /\ pc' = "embed_text"
    /\ UNCHANGED <<loaded, failed_before>>

EmbedText ==
    /\ pc = "embed_text"
    /\ IF query_type \in {"Text", "Multimodal"} /\ query # ""
       THEN /\ embed_calls' = Append(embed_calls, "text")
            /\ \E ok \in BOOLEAN :
                  IF ok
                  THEN /\ text_embedding' = generate_text_embeddings(query)
                       /\ pc' = "embed_image"
                       /\ UNCHANGED <<display, failure, failed_before>>
                  ELSE /\ Catch("generate_text_embeddings")
                       /\ UNCHANGED text_embedding
       ELSE /\ pc' = "embed_image"
            /\ UNCHANGED <<text_embedding, embed_calls, display, failure,
                           failed_before>>
    /\ UNCHANGED <<loaded, inputs, image_embedding, multimodal_embedding,
                   index_to_use, indices, retrieved_items, context,
                   gpt_response, search_calls, chat_calls>>

EmbedImage ==
    /\ pc = "embed_image"
    /\ IF query_type \in {"Image", "Multimodal"} /\ uploaded_file # None
       THEN IF ~Decodable(uploaded_file)
            THEN /\ Catch("Image.open")
                 /\ UNCHANGED <<image_embedding, embed_calls>>
            ELSE /\ embed_calls' = Append(embed_calls, "image")
                 /\ \E ok \in BOOLEAN :
                       IF ok
                       THEN /\ image_embedding' =
                                   generate_image_embeddings(uploaded_file)
                            /\ pc' = "route"
                            /\ UNCHANGED <<display, failure, failed_before>>
                       ELSE /\ Catch("generate_image_embeddings")
                            /\ UNCHANGED image_embedding
       ELSE /\ pc' = "route"
            /\ UNCHANGED <<image_embedding, embed_calls, display, failure,
                           failed_before>>
    /\ UNCHANGED <<loaded, inputs, text_embedding, multimodal_embedding,
                   index_to_use, indices, retrieved_items, context,
                   gpt_response, search_calls, chat_calls>>

\* the if/elif chain with the Text branch pointing at the combined index
RoutePair_WrongIndex ==
    IF query_type = "Multimodal" /\ text_embedding # NoArray
                                 /\ image_embedding # NoArray
    THEN <<hstack(text_embedding, image_embedding), full_index>>
    ELSE IF query_type = "Text" /\ text_embedding # NoArray
    THEN <<text_embedding, full_index>>
    ELSE IF query_type = "Image" /\ image_embedding # NoArray
    THEN <<image_embedding, image_index>>
    ELSE <<>>

\* the if/elif chain: the (vector, index) pair of the mode, or <<>> for the
\* else branch
RoutePair ==
    IF query_type = "Multimodal" /\ text_embedding # NoArray
                                 /\ image_embedding # NoArray
    THEN <<hstack(text_embedding, image_embedding), full_index>>
    ELSE IF query_type = "Text" /\ text_embedding # NoArray
    THEN <<text_embedding, text_index>>
    ELSE IF query_type = "Image" /\ image_embedding # NoArray
    THEN <<image_embedding, image_index>>
    ELSE <<>>

Route ==
    /\ pc = "route"
    /\ IF RoutePair # <<>>
       THEN /\ multimodal_embedding' = RoutePair[1]
            /\ index_to_use' = RoutePair[2]
            /\ pc' = "search"
            /\ UNCHANGED <<display, failed_before>>
       ELSE \* st.error, then st.stop() ends the script run
            /\ display' = Append(display, InvalidQueryError)
            /\ pc' = "form"
            /\ failed_before' = TRUE
            /\ UNCHANGED <<multimodal_embedding, index_to_use>>
    /\ UNCHANGED <<loaded, inputs, text_embedding, image_embedding, indices,
                   retrieved_items, context, gpt_response, calls, failure>>

IndexSearch ==
    /\ pc = "search"
    /\ search_calls' = Append(search_calls,
            [index |-> index_to_use, vector |-> multimodal_embedding, k |-> K])
    /\ \/ /\ index_to_use = None
          /\ Catch("AttributeError")
          /\ UNCHANGED indices
       \/ /\ index_to_use # None
          /\ Catch("search")
          /\ UNCHANGED indices
       \/ /\ index_to_use # None
          /\ indices' \in SearchOutcomes(ntotal)
          /\ pc' = "lookup"
          /\ UNCHANGED <<display, failure, failed_before>>
    /\ UNCHANGED <<loaded, inputs, text_embedding, image_embedding,
                   multimodal_embedding, index_to_use, retrieved_items,
                   context, gpt_response, embed_calls, chat_calls>>

CatalogLookup ==
    /\ pc = "lookup"
    /\ IF InBounds(final_dataset, indices)
       THEN /\ retrieved_items' = iloc(final_dataset, indices)
            /\ pc' = "render"
            /\ UNCHANGED <<display, failure, failed_before>>
       ELSE /\ Catch("IndexError")
            /\ UNCHANGED retrieved_items
    /\ UNCHANGED <<loaded, inputs, text_embedding, image_embedding,
                   multimodal_embedding, index_to_use, indices, context,
                   gpt_response, calls>>

\* the elements the display loop renders: for every row its markdown lines,
\* then its image
Rendered(items) ==
    [i \in 1..(2 * Len(items)) |->
        IF i % 2 = 1 THEN Element("item", items[(i + 1) \div 2].product, <<>>)
                     ELSE Element("image", items[i \div 2].product, <<>>)]

RenderResults ==
    /\ pc = "render"
    /\ \/ /\ display' = (display \o <<Subheader("Retrieved Results")>>)
                            \o Rendered(retrieved_items)
          /\ pc' = "respond"
          /\ UNCHANGED <<failure, failed_before>>
       \/ \E j \in 1..Len(retrieved_items) :
             \* st.image raises on row j
             /\ pc' = "form"
             /\ display' = ((display \o <<Subheader("Retrieved Results")>>)
                               \o SubSeq(Rendered(retrieved_items), 1, 2 * j - 1))
                               \o <<ErrorOccurred("st.image")>>
             /\ failure' = "st.image"
             /\ failed_before' = TRUE
    /\ UNCHANGED <<loaded, inputs, locals, calls>>

Respond ==
    /\ pc = "respond"
    /\ \E chat_ok \in BOOLEAN :
          LET q == IF query # "" THEN query ELSE "image-based query"
              r == generate_response_gpt4(q, retrieved_items, chat_ok)
          IN  /\ chat_calls' = chat_calls + r.chat
              /\ context' = r.context
              /\ IF r.raised
                 THEN /\ Catch("ChatCompletion.create")
                      /\ UNCHANGED gpt_response
                 ELSE /\ gpt_response' = r.value
                      /\ display' = display \o
                            <<Subheader("GPT-4 Response"),
                              Element("write", -1, r.value)>>
                      /\ pc' = "form"
                      /\ UNCHANGED <<failure, failed_before>>
    /\ UNCHANGED <<loaded, inputs, text_embedding, image_embedding,
                   multimodal_embedding, index_to_use, indices,
                   retrieved_items, embed_calls, search_calls>>

Next ==
    \/ load_clip_model
    \/ load_faiss_indices
    \/ load_dataset
    \/ Rerun
    \/ Search
    \/ EmbedText
    \/ EmbedImage
    \/ Route
    \/ IndexSearch
    \/ CatalogLookup
    \/ RenderResults
    \/ Respond

Spec == Init /\ [][Next]_vars

\* ------------------------------------------- generate_response_gpt4 alone
\* longest result list handed to generate_response_gpt4 on its own
MaxItems == 2

ItemLists ==
    UNION {[1..n -> {LoadedTable[i] : i \in 1..NRows}] : n \in 0..MaxItems}

\* the handler stands at line 193 with any query and any result list, the
\* empty one included
InitGen ==
    /\ pc = "respond"
    /\ clip_model = "openai/clip-vit-base-patch32"
    /\ faiss_cached = TRUE
    /\ temp_indices = {IndexNames[j] : j \in 1..Len(IndexNames)}
    /\ ntotal \in IndexSizes
    /\ text_index = IndexNames[1] /\ image_index = IndexNames[2]
    /\ full_index = IndexNames[3]
    /\ final_dataset = LoadedTable
    /\ query_type = "Text" /\ query \in Queries /\ uploaded_file = None
    /\ button = TRUE
    /\ text_embedding = NoArray /\ image_embedding = NoArray
    /\ multimodal_embedding = NoArray /\ index_to_use = None
    /\ indices = NoArray /\ retrieved_items \in ItemLists
    /\ context = NoArray /\ gpt_response = NoArray
    /\ display = <<>>
    /\ embed_calls = <<>> /\ search_calls = <<>> /\ chat_calls = 0
    /\ failure = "none"
    /\ failed_before = FALSE

NextGen == Respond

SpecGen == InitGen /\ [][NextGen]_vars

\* ----------------------------------------------------------------- claims
NeedsText == query_type \in {"Text", "Multimodal"}
NeedsImage == query_type \in {"Image", "Multimodal"}
MissingInput ==
    \/ NeedsText /\ query = ""
    \/ NeedsImage /\ uploaded_file = None
RequestEnded == button /\ pc = "form"
NothingRendered == ~ShownKind("subheader") /\ ~ShownKind("item")
                    /\ ~ShownKind("image") /\ ~ShownKind("write")

\* C1: a Search whose mode lacks a required input ends in the invalid-query
\* error state, never invokes the index search, renders neither results nor
\* a recommendation, and is not routed as a single-mode search.
C1_MissingInputIsInvalidQuery ==
    (button /\ MissingInput) =>
        /\ search_calls = <<>>
        /\ NothingRendered
        /\ multimodal_embedding = NoArray
        /\ (pc = "form" => Shown(InvalidQueryError))

\* C2: Multimodal with a query and no upload: routing fails with
\* InvalidQuery, and when it does no embedding has been computed and no
\* index has been searched.
C2_NoEmbeddingBeforeInvalidQuery ==
    (button /\ query_type = "Multimodal" /\ query # "" /\ uploaded_file = None)
    =>  /\ (pc = "form" /\ failure = "none" => Shown(InvalidQueryError))
        /\ (Shown(InvalidQueryError) =>
                /\ embed_calls = <<>>
                /\ text_embedding = NoArray
                /\ image_embedding = NoArray
                /\ search_calls = <<>>)

InputsPresent ==
    /\ NeedsText => query # ""
    /\ NeedsImage => uploaded_file # None

\* the (vector, index) pair the mode calls for
ModeVector ==
    IF query_type = "Text" THEN generate_text_embeddings(query)
    ELSE IF query_type = "Image" THEN generate_image_embeddings(uploaded_file)
    ELSE generate_text_embeddings(query)
            \o generate_image_embeddings(uploaded_file)
ModeIndex ==
    IF query_type = "Text" THEN text_index
    ELSE IF query_type = "Image" THEN image_index
    ELSE full_index

SearchesMatchMode ==
    /\ Len(search_calls) <= 1
    /\ \A i \in 1..Len(search_calls) :
          /\ search_calls[i].k = 5
          /\ search_calls[i].vector = ModeVector
          /\ search_calls[i].index = ModeIndex
UnneededInputNotEmbedded ==
    /\ ~NeedsImage => (image_embedding = NoArray
                        /\ \A i \in 1..Len(embed_calls) : embed_calls[i] # "image")
    /\ ~NeedsText => (text_embedding = NoArray
                        /\ \A i \in 1..Len(embed_calls) : embed_calls[i] # "text")

EmbeddingFailures ==
    {"generate_text_embeddings", "Image.open", "generate_image_embeddings"}

ResultsDisplayed ==
    /\ Len(display) >= 1 + 2 * Len(retrieved_items)
    /\ display[1] = Subheader("Retrieved Results")
    /\ \A i \in 1..Len(retrieved_items) :
          /\ display[2 * i] = Element("item", retrieved_items[i].product, <<>>)
          /\ display[2 * i + 1] =
                Element("image", retrieved_items[i].product, <<>>)

\* C4: when retrieval succeeded and the chat call fails, the retrieved items
\* were displayed before the call and stay displayed, and an error notice,
\* not generated text, follows them.
C4_ChatFailureKeepsResults ==
    /\ pc = "respond" => (retrieved_items # NoArray /\ ResultsDisplayed)
    /\ failure = "ChatCompletion.create" =>
          /\ retrieved_items # NoArray
          /\ ResultsDisplayed
          /\ display[Len(display)] = ErrorOccurred("ChatCompletion.create")
          /\ ~ShownKind("write")

C4_Witness ==
    /\ RequestEnded
    /\ failure = "ChatCompletion.create"
    /\ chat_calls = 1
    /\ ShownKind("item")

\* C5: generate_response_gpt4 on an empty result list returns the fallback
\* message with the query text and makes no chat call; on any non-empty list
\* it makes exactly one chat call.
C5_EmptyResultsNoChatCall ==
    pc = "form" =>
        LET q == IF query # "" THEN query ELSE "image-based query"
        IN  /\ retrieved_items = <<>> =>
                /\ chat_calls = 0
                /\ gpt_response =
                     <<"Sorry, I couldn't find any relevant products for your query: ", q>>
            /\ retrieved_items # <<>> => chat_calls = 1

C5_Witness ==
    /\ pc = "form" /\ retrieved_items = <<>> /\ query = "shoes"
    /\ chat_calls = 0
    /\ Shown(Element("write", -1, gpt_response))

\* C6: the context block has one line per result and the line of the result
\* at rank r is numbered r, whatever catalog positions the search returned;
\* stated for searches that returned only positions of existing rows.
C6_ContextNumberedByRank ==
    (context # NoArray /\ \A i \in 1..Len(indices) : indices[i] >= 0) =>
        /\ Len(context) = Len(retrieved_items)
        /\ \A r \in 1..Len(context) :
              /\ context[r].number = r
              /\ context[r].product = retrieved_items[r].product

\* C7: every position the search returned resolves to the table row at that
\* position, and a position outside the table, -1 included, makes the lookup
\* fail with an out-of-range error.
C7_PositionsResolveOrFail ==
    (button /\ indices # NoArray /\ pc # "lookup") =>
        IF \A i \in 1..Len(indices) : indices[i] \in 0..(Len(final_dataset) - 1)
        THEN /\ Len(retrieved_items) = Len(indices)
             /\ \A i \in 1..Len(indices) :
                   retrieved_items[i] = final_dataset[indices[i] + 1]
        ELSE /\ failure = "IndexError"
             /\ retrieved_items = NoArray

\* C8: the form accepts a Search only when all three index handles and the
\* dataset were loaded.
C8_LoadFailureAborts ==
    pc = "form" =>
        /\ text_index # None
        /\ image_index # None
        /\ full_index # None
        /\ final_dataset # NoArray

\* C9: the vector a Multimodal search sends to the index is the text
\* embedding followed by the image embedding.
C9_TextThenImage ==
    (button /\ query_type = "Multimodal") =>
        \A c \in 1..Len(search_calls) :
            LET v == search_calls[c].vector
                T == text_embedding
                I == image_embedding
            IN  /\ T = generate_text_embeddings(query)
                /\ I = generate_image_embeddings(uploaded_file)
                /\ Len(v) = Len(T) + Len(I)
                /\ \A i \in 1..Len(T) : v[i] = T[i]
                /\ \A i \in 1..Len(I) : v[Len(T) + i] = I[i]

C9_Witness ==
    /\ button /\ query_type = "Multimodal"
    /\ Len(search_calls) = 1
    /\ search_calls[1].index = "multimodal_embeddings"
    /\ Len(search_calls[1].vector) = 2 * Dim

\* one step of a Search request: it stays in the handler or returns to the
\* form, leaves the caches alone, and a raised failure ends at the form with
\* its error message rendered last
CaughtStep ==
    pc \in RequestPcs =>
        /\ pc' \in RequestPcs \cup {"form"}
        /\ loaded' = loaded
        /\ (failure' # "none" =>
              /\ pc' = "form"
              /\ Len(display') >= 1
              /\ display'[Len(display')] = ErrorOccurred(failure'))

====
